---- MODULE Spec2Model ----
(***************************************************************************)
(* Model of rbtempo.py: the RBTempoPlugin object, the three Gtk            *)
(* adjustments it wires to property_changed, the GStreamer "pitch" filter  *)
(* it inserts into the host player's pipeline and the toolbox it inserts   *)
(* into the host's main toolbar.                                           *)
(*                                                                         *)
(* Everything runs on the host's UI event loop, so every handler is one    *)
(* atomic action.  Filter properties are real numbers in the source; here  *)
(* they are fixed-point integers in units of 1/Scale.                      *)
(***************************************************************************)
EXTENDS Integers, Sequences, FiniteSets

VARIABLES
    active,         \* host side: plugin is between do_activate and do_deactivate
    pitch_element,  \* self.pitch_element: None or the id of a Gst element
    toolbox,        \* self.toolbox: None or the id of a toolbox widget
    cur_adj,        \* the toolbox generation self.tempo_adj/pitch_adj/speed_adj belong to
    adjs,           \* values of the live Gtk.Adjustment triples, one triple per create_toolbox
    toolbar,        \* toolboxes that are children of the host's main toolbar
    pipeline,       \* filter elements in the host player's pipeline
    props,          \* props.tempo / props.pitch / props.rate of the element the plugin holds
    nActivations,   \* number of do_activate calls so far
    last            \* what the last handler did (calls made, warnings, ...)

vars == <<active, pitch_element, toolbox, cur_adj, adjs, toolbar, pipeline,
          props, nActivations, last>>

None == 0

\* Number of times the host activates the plugin.
MaxActivations == 2

\* Fixed-point representation of 1.0.
Scale == 1000000
\* Fixed-point representation of 0.01.
Percent == 10000

\* create_toolbox: create_adj(0, -50, 200, 5, 10) for tempo and speed
TempoLower == -50
TempoUpper == 200
TempoStep == 5
\* create_toolbox: create_adj(0, -12, 12, 1, 3) for pitch
PitchLower == -12
PitchUpper == 12
PitchStep == 1
SpeedLower == -50
SpeedUpper == 200
SpeedStep == 5

AdjNames == <<"tempo", "pitch", "speed">>

Lower(which) ==
    CASE which = "tempo" -> TempoLower
      [] which = "pitch" -> PitchLower
      [] which = "speed" -> SpeedLower

Upper(which) ==
    CASE which = "tempo" -> TempoUpper
      [] which = "pitch" -> PitchUpper
      [] which = "speed" -> SpeedUpper

Step(which) ==
    CASE which = "tempo" -> TempoStep
      [] which = "pitch" -> PitchStep
      [] which = "speed" -> SpeedStep

\* Values a user asks a scale / spin button for: back to 0, or one other
\* value per control.  The tempo and speed values lie just outside the range,
\* as a typed spin-button entry can, and the pitch value is one step down.
UserValues(which) ==
    CASE which = "tempo" -> {0, TempoLower - 1}
      [] which = "pitch" -> {0, 0 - PitchStep}
      [] which = "speed" -> {0, SpeedUpper + 1}

\* Gtk.Adjustment value clamping: CLAMP(value, lower, upper)
Clamp(v, lo, hi) == IF v < lo THEN lo ELSE IF v > hi THEN hi ELSE v

\* 2^(k/12) for k = 0..11, in units of 1/Scale
SemitoneTable ==
    <<1000000, 1059463, 1122462, 1189207, 1259921, 1334840,
      1414214, 1498307, 1587401, 1681793, 1781797, 1887749>>

RECURSIVE Pow2(_)
Pow2(n) == IF n = 0 THEN 1 ELSE 2 * Pow2(n - 1)

\* tempo_adj.get_value() * 0.01 + 1.0
TempoProp(v) == v * Percent + Scale

\* math.pow(2.0, pitch_adj.get_value() / 12.0)
PitchProp(v) ==
    LET oct == v \div 12
        semi == v % 12
    IN  IF oct >= 0 THEN SemitoneTable[semi + 1] * Pow2(oct)
        ELSE SemitoneTable[semi + 1] \div Pow2(0 - oct)

\* speed_adj.get_value() * 0.01 + 1.0
RateProp(v) == v * Percent + Scale

\* Property values of a freshly made "pitch" element (all multipliers 1.0)
DefaultProps == [tempo |-> Scale, pitch |-> Scale, rate |-> Scale]

\* Adjustment values right after create_adj(0, ...)
DefaultAdj == [tempo |-> 0, pitch |-> 0, speed |-> 0]

EmptyLog(op, ui) ==
    [op |-> op, ui |-> ui, addCalls |-> <<>>, removeCalls |-> <<>>,
     handlerCalls |-> <<>>, warnings |-> <<>>, propagated |-> FALSE]

\* The part of the state the filter and adjustment handlers work on.
Cur(op, ui) ==
    [pitch_element |-> pitch_element, pipeline |-> pipeline, props |-> props,
     adjs |-> adjs, cur_adj |-> cur_adj, log |-> EmptyLog(op, ui)]

\* Identity of the element Gst.ElementFactory.make returns: one that is not
\* in the pipeline.
NewElement(s) ==
    CHOOSE e \in 1..(Cardinality(s.pipeline) + 1) :
        /\ e \notin s.pipeline
        /\ \A x \in 1..(e - 1) : x \in s.pipeline

\* Identity of the toolbox (and its adjustment triple) create_toolbox builds.
NewToolbox(s) ==
    CHOOSE g \in 1..(Cardinality(DOMAIN s.adjs) + 1) :
        /\ g \notin DOMAIN s.adjs
        /\ \A x \in 1..(g - 1) : x \in DOMAIN s.adjs

\* Objects nothing refers to are garbage: an adjustment triple lives while
\* the plugin's attributes or a toolbox in the toolbar refer to it, and the
\* plugin sees an element's properties only through self.pitch_element.
LiveAdjs(a, cur, tbar) == [g \in (DOMAIN a) \cap ({cur} \cup tbar) |-> a[g]]

HeldProps(p, handle) == [e \in (DOMAIN p) \cap {handle} |-> p[e]]

\* A host pipeline call and its effect, as add_filter / remove_filter log it.
AddCall(pre, made, hostAdd, post, before, after, warned) ==
    [pre |-> pre, made |-> made, hostAdd |-> hostAdd, post |-> post,
     pipeBefore |-> before, pipeAfter |-> after, warned |-> warned]

RemoveCall(pre, hostRemove, post, before, after) ==
    [pre |-> pre, hostRemove |-> hostRemove, post |-> post,
     pipeBefore |-> before, pipeAfter |-> after]

WithProps(p, e, rec) == [x \in DOMAIN p \cup {e} |-> IF x = e THEN rec ELSE p[x]]

\* add_filter without the `is None` test: a new element on every call.
add_filter_unconditional(s, makeOk) ==
    LET e == NewElement(s)
    IN  [s EXCEPT
           !.pitch_element = e,
           !.props = WithProps(HeldProps(s.props, None), e, DefaultProps),
           !.pipeline = s.pipeline \cup {e},
           !.log.addCalls = Append(@,
              AddCall(s.pitch_element, TRUE, <<e>>, e, s.pipeline,
                      s.pipeline \cup {e}, FALSE))]

\* RBTempoPlugin.add_filter; makeOk is whether Gst.ElementFactory.make
\* returns an element.
add_filter(s, makeOk) ==
    IF s.pitch_element = None
    THEN IF makeOk
         THEN LET e == NewElement(s)
              IN  [s EXCEPT
                     !.pitch_element = e,
                     !.props = WithProps(s.props, e, DefaultProps),
                     !.pipeline = s.pipeline \cup {e},
                     !.log.addCalls = Append(@,
                        AddCall(None, TRUE, <<e>>, e, s.pipeline,
                                s.pipeline \cup {e}, FALSE))]
         ELSE [s EXCEPT
                 !.log.warnings = Append(@, "no-pitch-element"),
                 !.log.addCalls = Append(@,
                    AddCall(None, FALSE, <<>>, None, s.pipeline, s.pipeline,
                            TRUE))]
    ELSE [s EXCEPT
            !.log.addCalls = Append(@,
               AddCall(s.pitch_element, FALSE, <<>>, s.pitch_element,
                       s.pipeline, s.pipeline, FALSE))]

\* remove_filter without the `is not None` test.
remove_filter_unconditional(s) ==
    [s EXCEPT
       !.pitch_element = None,
       !.pipeline = s.pipeline \ {s.pitch_element},
       !.log.removeCalls = Append(@,
          RemoveCall(s.pitch_element, <<s.pitch_element>>, None, s.pipeline,
                     s.pipeline \ {s.pitch_element}))]

\* remove_filter that clears the handle but never calls the host.
remove_filter_handle_only(s) ==
    [s EXCEPT
       !.pitch_element = None,
       !.log.removeCalls = Append(@,
          RemoveCall(s.pitch_element, <<>>, None, s.pipeline, s.pipeline))]

\* RBTempoPlugin.remove_filter
remove_filter(s) ==
    IF s.pitch_element # None
    THEN [s EXCEPT
            !.pitch_element = None,
            !.pipeline = s.pipeline \ {s.pitch_element},
            !.log.removeCalls = Append(@,
               RemoveCall(s.pitch_element, <<s.pitch_element>>, None,
                          s.pipeline, s.pipeline \ {s.pitch_element}))]
    ELSE [s EXCEPT
            !.log.removeCalls = Append(@,
               RemoveCall(None, <<>>, None, s.pipeline, s.pipeline))]

\* property_changed with the rate computed from the tempo adjustment.
property_changed_rate_from_tempo(s, which, makeOk) ==
    LET s1 == add_filter(s, makeOk)
        a == s1.adjs[s1.cur_adj]
    IN  IF s1.pitch_element # None
        THEN [s1 EXCEPT
                !.props = WithProps(s1.props, s1.pitch_element,
                    [tempo |-> TempoProp(a.tempo),
                     pitch |-> PitchProp(a.pitch),
                     rate |-> RateProp(a.tempo)]),
                !.log.handlerCalls = Append(@, [adj |-> which, wrote |-> TRUE])]
        ELSE [s1 EXCEPT
                !.log.handlerCalls = Append(@, [adj |-> which, wrote |-> FALSE])]

\* property_changed without the `is not None` test before the writes.
property_changed_unguarded(s, which, makeOk) ==
    LET s1 == add_filter(s, makeOk)
        a == s1.adjs[s1.cur_adj]
    IN  [s1 EXCEPT
           !.props = WithProps(s1.props, s1.pitch_element,
               [tempo |-> TempoProp(a.tempo),
                pitch |-> PitchProp(a.pitch),
                rate |-> RateProp(a.speed)]),
           !.log.handlerCalls = Append(@, [adj |-> which, wrote |-> TRUE])]

\* RBTempoPlugin.property_changed, connected to 'value-changed' of every
\* adjustment by create_adj; which is the adjustment that emitted the signal.
property_changed(s, which, makeOk) ==
    LET s1 == add_filter(s, makeOk)
        a == s1.adjs[s1.cur_adj]
    IN  IF s1.pitch_element # None
        THEN [s1 EXCEPT
                !.props = WithProps(s1.props, s1.pitch_element,
                    [tempo |-> TempoProp(a.tempo),
                     pitch |-> PitchProp(a.pitch),
                     rate |-> RateProp(a.speed)]),
                !.log.handlerCalls = Append(@, [adj |-> which, wrote |-> TRUE])]
        ELSE [s1 EXCEPT
                !.log.handlerCalls = Append(@, [adj |-> which, wrote |-> FALSE])]

\* set_value that emits 'value-changed' even when the value stays the same.
set_value_always_emits(s, g, which, v, makeOk) ==
    LET c == Clamp(v, Lower(which), Upper(which))
    IN  property_changed([s EXCEPT !.adjs[g][which] = c], which, makeOk)

\* Gtk.Adjustment.set_value on adjustment `which` of toolbox generation g:
\* the value is clamped to [lower, upper] and 'value-changed' is emitted
\* (running property_changed) only when the value actually changes.
set_value(s, g, which, v, makeOk) ==
    LET c == Clamp(v, Lower(which), Upper(which))
    IN  IF c # s.adjs[g][which]
        THEN property_changed([s EXCEPT !.adjs[g][which] = c], which, makeOk)
        ELSE s

\* reset that forgets the speed adjustment.
reset_skips_speed(s, makeOk) ==
    LET s1 == set_value(s, s.cur_adj, "tempo", 0, makeOk[1])
    IN  set_value(s1, s1.cur_adj, "pitch", 0, makeOk[2])

\* RBTempoPlugin.reset; makeOk[i] is the outcome of element creation should
\* the i-th set_value reach add_filter with an empty handle.
reset(s, makeOk) ==
    LET s1 == set_value(s, s.cur_adj, "tempo", 0, makeOk[1])
        s2 == set_value(s1, s1.cur_adj, "pitch", 0, makeOk[2])
    IN  set_value(s2, s2.cur_adj, "speed", 0, makeOk[3])

\* The three create_adj calls of create_toolbox: a new triple of adjustments
\* replaces self.tempo_adj, self.pitch_adj and self.speed_adj.
create_adjustments(s) ==
    LET g == NewToolbox(s)
    IN  [s EXCEPT !.adjs = WithProps(s.adjs, g, DefaultAdj), !.cur_adj = g]

Init ==
    /\ active = FALSE
    /\ pitch_element = None
    /\ toolbox = None
    /\ cur_adj = None
    /\ adjs = <<>>
    /\ toolbar = {}
    /\ pipeline = {}
    /\ props = <<>>
    /\ nActivations = 0
    /\ last = EmptyLog("init", "none")

\* Outcomes of the UI half of do_activate: the toolbox is built and inserted,
\* get_toolbar returns None, or get_toolbar / create_toolbox / toolbar.insert
\* raises.  create_toolbox can only raise after its first three lines, which
\* construct adjustments.
ActivateOutcomes ==
    {"inserted", "toolbar-not-found", "lookup-raised", "create-raised",
     "insert-raised"}

\* Outcomes of the UI half of do_deactivate: self.toolbox is empty and the
\* half is skipped, the toolbar is found, get_toolbar returns None, or
\* get_toolbar / get_parent / toolbar.remove raises.
DeactivateOutcomes ==
    {"skipped", "toolbar-found", "toolbar-not-found", "lookup-raised",
     "remove-raised"}

\* do_activate: create_toolbox ran far enough to replace the adjustments.
creates_adjustments(ui) == ui \in {"inserted", "create-raised", "insert-raised"}

\* do_activate: self.toolbox after `self.toolbox = self.create_toolbox()`.
toolbox_after_activate(ui, g) ==
    IF ui \in {"inserted", "insert-raised"} THEN g ELSE None

\* do_activate that stays silent when the toolbar is missing.
activate_warnings_silent(ui) ==
    CASE ui \in {"inserted", "toolbar-not-found"} -> <<>>
      [] OTHER -> <<"activate-ui-failed">>

\* do_activate: the GLib.warning calls of the UI half.
activate_warnings(ui) ==
    CASE ui = "inserted" -> <<>>
      [] ui = "toolbar-not-found" -> <<"no-toolbar">>
      [] OTHER -> <<"activate-ui-failed">>

\* do_deactivate: `toolbar and self.toolbox.get_parent()` holds and
\* toolbar.remove returns.
deactivate_removes(ui, tb, tbar) == ui = "toolbar-found" /\ tb \in tbar

\* do_deactivate: the GLib.warning calls of the UI half.
deactivate_warnings(ui) ==
    CASE ui \in {"skipped", "toolbar-found"} -> <<>>
      [] ui = "toolbar-not-found" -> <<"no-toolbar">>
      [] OTHER -> <<"deactivate-ui-failed">>

\* RBTempoPlugin.do_activate
do_activate(makeOk, ui) ==
    /\ ~active
    /\ nActivations < MaxActivations
    /\ LET s0 == [Cur("do_activate", ui) EXCEPT !.pitch_element = None,
                                                 !.props = <<>>]
           s1 == add_filter(s0, makeOk)
           s2 == IF creates_adjustments(ui) THEN create_adjustments(s1) ELSE s1
       IN  /\ pitch_element' = s2.pitch_element
           /\ pipeline' = s2.pipeline
           /\ props' = s2.props
           /\ cur_adj' = s2.cur_adj
           /\ toolbox' = toolbox_after_activate(ui, s2.cur_adj)
           /\ toolbar' = IF ui = "inserted"
                         THEN toolbar \cup {s2.cur_adj} ELSE toolbar
           /\ adjs' = LiveAdjs(s2.adjs, cur_adj', toolbar')
           /\ last' = [s2.log EXCEPT !.warnings = @ \o activate_warnings(ui)]
    /\ active' = TRUE
    /\ nActivations' = nActivations + 1

\* RBTempoPlugin.do_deactivate
do_deactivate(ui) ==
    /\ active
    /\ (toolbox = None) <=> (ui = "skipped")
    /\ LET s1 == remove_filter(Cur("do_deactivate", ui))
       IN  /\ pitch_element' = None
           /\ pipeline' = s1.pipeline
           /\ props' = HeldProps(s1.props, None)
           /\ toolbar' = IF deactivate_removes(ui, toolbox, toolbar)
                         THEN toolbar \ {toolbox} ELSE toolbar
           /\ adjs' = LiveAdjs(adjs, cur_adj, toolbar')
           /\ last' = [s1.log EXCEPT !.warnings = @ \o deactivate_warnings(ui)]
    /\ toolbox' = None
    /\ active' = FALSE
    /\ UNCHANGED <<cur_adj, nActivations>>

\* The user moves a scale or edits a spin button of a toolbox that is in the
\* toolbar: Gtk calls set_value on that toolbox's adjustment.
value_changed(g, which, v, makeOk) ==
    /\ g \in toolbar
    /\ LET s1 == set_value(Cur("set_value", "none"), g, which, v, makeOk)
       IN  /\ pitch_element' = s1.pitch_element
           /\ pipeline' = s1.pipeline
           /\ props' = s1.props
           /\ adjs' = s1.adjs
           /\ last' = s1.log
    /\ UNCHANGED <<active, toolbox, cur_adj, toolbar, nActivations>>

\* The user clicks the reset button of a toolbox that is in the toolbar.
reset_clicked(makeOk) ==
    /\ toolbar # {}
    /\ LET s1 == reset(Cur("reset", "none"), makeOk)
       IN  /\ pitch_element' = s1.pitch_element
           /\ pipeline' = s1.pipeline
           /\ props' = s1.props
           /\ adjs' = s1.adjs
           /\ last' = s1.log
    /\ UNCHANGED <<active, toolbox, cur_adj, toolbar, nActivations>>

\* Outcomes of Gst.ElementFactory.make a handler can meet: add_filter calls
\* it only when the handle is empty.
MakeOutcomes == IF pitch_element = None THEN BOOLEAN ELSE {TRUE}

Next ==
    \/ \E makeOk \in BOOLEAN, ui \in ActivateOutcomes : do_activate(makeOk, ui)
    \/ \E ui \in DeactivateOutcomes : do_deactivate(ui)
    \/ \E g \in toolbar, i \in 1..3, makeOk \in MakeOutcomes :
          \E v \in UserValues(AdjNames[i]) :
             value_changed(g, AdjNames[i], v, makeOk)
    \/ \E makeOk \in [1..3 -> MakeOutcomes] : reset_clicked(makeOk)

Spec == Init /\ [][Next]_vars

----------------------------------------------------------------------------
\* Vocabulary of the properties below.

\* The last event was an adjustment change or a reset that ran property_changed.
HandlerRan ==
    /\ last.op \in {"set_value", "reset"}
    /\ last.handlerCalls # <<>>

\* The add_filter call of the last property_changed invocation.
LastAdd == last.addCalls[Len(last.addCalls)]

\* The adjustments self.tempo_adj, self.pitch_adj and self.speed_adj.
SelfAdj == adjs[cur_adj]

Neutral == [tempo |-> Scale, pitch |-> Scale, rate |-> Scale]

\* The adjustments of triple a whose value is not 0, in reset's order.
NonZero(a) ==
    (IF a.tempo # 0 THEN <<"tempo">> ELSE <<>>)
    \o (IF a.pitch # 0 THEN <<"pitch">> ELSE <<>>)
    \o (IF a.speed # 0 THEN <<"speed">> ELSE <<>>)

\* C1: once property_changed has finished after an adjustment changed value,
\* with a filter attached or creatable, a filter is attached and its tempo,
\* pitch and rate equal v*0.01+1.0, 2^(v/12) and v*0.01+1.0 of the current
\* tempo, pitch and speed adjustments, which lie in their ranges.
C1_FormulasApplied ==
    (HandlerRan /\ (LastAdd.pre # None \/ LastAdd.made)) =>
        /\ pitch_element # None
        /\ SelfAdj.tempo \in TempoLower..TempoUpper
        /\ SelfAdj.pitch \in PitchLower..PitchUpper
        /\ SelfAdj.speed \in SpeedLower..SpeedUpper
        /\ props[pitch_element].tempo = SelfAdj.tempo * Percent + Scale
        /\ props[pitch_element].pitch = PitchProp(SelfAdj.pitch)
        /\ props[pitch_element].pitch * 2 >= Scale
        /\ props[pitch_element].pitch <= 2 * Scale
        /\ props[pitch_element].rate = SelfAdj.speed * Percent + Scale

C1_Witness ==
    /\ last.op = "set_value"
    /\ HandlerRan
    /\ pitch_element # None
    /\ SelfAdj.tempo = TempoLower
    /\ SelfAdj.pitch = 0 - PitchStep
    /\ SelfAdj.speed = SpeedUpper

\* C2 as stated: after reset the three adjustments are 0 and there is a
\* filter whose tempo, pitch and rate are 1.0.
C2_ResetAlwaysNeutralFilter ==
    last.op = "reset" =>
        /\ SelfAdj = DefaultAdj
        /\ pitch_element # None
        /\ props[pitch_element] = Neutral

\* C2 amended: after reset the three adjustments are 0 and, when a filter
\* element is attached, its tempo, pitch and rate are 1.0.
C2_ResetNeutral ==
    last.op = "reset" =>
        /\ SelfAdj = DefaultAdj
        /\ pitch_element # None => props[pitch_element] = Neutral

C2_Witness ==
    /\ last.op = "reset"
    /\ Len(last.handlerCalls) = 3
    /\ pitch_element # None

\* C3: the pipeline never holds two filters of the plugin, and a non-empty
\* filter handle refers to the one filter in the pipeline.
C3_AtMostOneFilter ==
    /\ Cardinality(pipeline) <= 1
    /\ pitch_element # None => pipeline = {pitch_element}

\* C4: an add_filter call made while the handle is non-empty creates no
\* element, does not call the host's add_filter and leaves the handle and
\* the pipeline as they were.
C4_AttachIdempotent ==
    /\ \A i \in 1..Len(last.addCalls) :
          last.addCalls[i].pre # None =>
             /\ ~last.addCalls[i].made
             /\ last.addCalls[i].hostAdd = <<>>
             /\ last.addCalls[i].post = last.addCalls[i].pre
             /\ last.addCalls[i].pipeAfter = last.addCalls[i].pipeBefore
    /\ (last.addCalls # <<>> /\ LastAdd.pre # None) =>
          /\ pitch_element = LastAdd.pre
          /\ pipeline = LastAdd.pipeBefore

\* A reset whose first handler attached the filter and whose second found
\* it attached.
C4_Witness ==
    /\ last.op = "reset"
    /\ Len(last.addCalls) >= 2
    /\ last.addCalls[1].made
    /\ last.addCalls[2].pre # None

\* C5: remove_filter with an empty handle does not call the host, raises
\* nothing and changes neither handle nor pipeline; with a non-empty handle
\* it removes exactly that element from the pipeline and clears the handle.
C5_DetachNoOpWhenAbsent ==
    \A i \in 1..Len(last.removeCalls) :
       LET c == last.removeCalls[i]
       IN  /\ ~last.propagated
           /\ c.post = None
           /\ pitch_element = None
           /\ pipeline = c.pipeAfter
           /\ c.pre = None => c.hostRemove = <<>> /\ c.pipeAfter = c.pipeBefore
           /\ c.pre # None =>
                 /\ c.hostRemove = <<c.pre>>
                 /\ c.pre \in c.pipeBefore
                 /\ c.pipeAfter = c.pipeBefore \ {c.pre}

C5_Witness ==
    /\ last.op = "do_deactivate"
    /\ last.removeCalls[1].pre = None
    /\ pipeline = {}

\* C6: when element creation fails add_filter raises nothing, warns, leaves
\* the handle empty and does not call the host; an adjustment change in that
\* situation writes no filter property and the adjustment has its new value.
C6_CreationFailureOnlyWarns ==
    [][/\ \A i \in 1..Len(last'.addCalls) :
             (last'.addCalls[i].pre = None /\ ~last'.addCalls[i].made) =>
                /\ last'.addCalls[i].warned
                /\ last'.addCalls[i].post = None
                /\ last'.addCalls[i].hostAdd = <<>>
                /\ last'.addCalls[i].pipeAfter = last'.addCalls[i].pipeBefore
                /\ ~last'.propagated
       /\ \A i \in 1..Len(last'.handlerCalls) :
             last'.addCalls[i].post = None => ~last'.handlerCalls[i].wrote
       /\ (/\ last'.op = "set_value"
           /\ last'.handlerCalls # <<>>
           /\ last'.addCalls[1].post = None) =>
             /\ pitch_element' = None
             /\ props' = <<>>
             /\ pipeline' = pipeline
             /\ last'.warnings = <<"no-pitch-element">>
             /\ \E g \in toolbar :
                   LET which == last'.handlerCalls[1].adj
                   IN  /\ adjs'[g][which] # adjs[g][which]
                       /\ adjs'[g][which] \in
                             {Clamp(v, Lower(which), Upper(which)) :
                                 v \in UserValues(which)}
                       /\ adjs' = [adjs EXCEPT ![g][which] = adjs'[g][which]]]_vars

C6_Witness ==
    /\ last.op = "set_value"
    /\ HandlerRan
    /\ LastAdd.pre = None
    /\ ~LastAdd.made
    /\ last.warnings = <<"no-pitch-element">>
    /\ pitch_element = None
    /\ SelfAdj # DefaultAdj

\* C7: do_activate with the toolbar not found returns normally with the
\* plugin active, the toolbox handle empty, the toolbar untouched, a warning
\* logged and the filter attach attempted (attached if creation succeeded).
C7_ActivateWithoutToolbar ==
    [][(last'.op = "do_activate" /\ last'.ui = "toolbar-not-found") =>
          /\ active'
          /\ ~last'.propagated
          /\ toolbox' = None
          /\ toolbar' = toolbar
          /\ \E i \in 1..Len(last'.warnings) : last'.warnings[i] = "no-toolbar"
          /\ Len(last'.addCalls) = 1
          /\ last'.addCalls[1].pre = None
          /\ last'.addCalls[1].made =>
                /\ pitch_element' # None
                /\ pitch_element' \in pipeline'
                /\ last'.addCalls[1].hostAdd = <<pitch_element'>>
          /\ ~last'.addCalls[1].made => pitch_element' = None]_vars

C7_Witness ==
    /\ last.op = "do_activate"
    /\ last.ui = "toolbar-not-found"
    /\ active
    /\ pitch_element # None

\* The postcondition of do_deactivate; removedWhen are the outcomes of the UI
\* half after which an attached toolbox has left the toolbar.
DeactivatePost(removedWhen) ==
    last'.op = "do_deactivate" =>
       /\ ~active'
       /\ pitch_element' = None
       /\ toolbox' = None
       /\ pitch_element # None => pitch_element \notin pipeline'
       /\ pipeline' = pipeline \ {pitch_element}
       /\ ~last'.propagated
       /\ (toolbox # None /\ toolbox \in toolbar /\ last'.ui \in removedWhen)
             => toolbox \notin toolbar'

\* C8 as stated: after do_deactivate both handles are empty, the attached
\* filter is out of the pipeline, nothing was propagated, and the toolbox is
\* out of the toolbar whenever the toolbar was found with the toolbox still
\* attached, toolbox removal raising or not.
C8_DeactivateRemovesToolbox ==
    [][DeactivatePost({"toolbar-found", "remove-raised"})]_vars

\* C8 amended: the same, the toolbox being out of the toolbar whenever the
\* toolbar was found with the toolbox still attached and removal did not raise.
C8_DeactivateClears ==
    [][DeactivatePost({"toolbar-found"})]_vars

C8_Witness ==
    /\ last.op = "do_deactivate"
    /\ last.ui = "toolbar-found"
    /\ last.removeCalls[1].pre # None
    /\ toolbar = {}
    /\ cur_adj # None

\* C9 as stated: every reset runs property_changed three times, for tempo,
\* pitch and speed in this order, each run writing the filter properties.
C9_ResetAlwaysThreeHandlers ==
    last.op = "reset" =>
        /\ Len(last.handlerCalls) = 3
        /\ \A i \in 1..3 :
              /\ last.handlerCalls[i].adj = AdjNames[i]
              /\ last.handlerCalls[i].wrote

\* C9 amended: a reset runs property_changed once for each adjustment whose
\* value was not 0, in the order tempo, pitch, speed, and each run writes the
\* filter properties when a filter is attached or can be created.
C9_ResetHandlerPerChange ==
    [][last'.op = "reset" =>
          /\ Len(last'.handlerCalls) = Len(NonZero(SelfAdj))
          /\ Len(last'.addCalls) = Len(last'.handlerCalls)
          /\ \A i \in 1..Len(last'.handlerCalls) :
                /\ last'.handlerCalls[i].adj = NonZero(SelfAdj)[i]
                /\ last'.handlerCalls[i].wrote =
                      (last'.addCalls[i].pre # None \/ last'.addCalls[i].made)]_vars

C9_Witness ==
    /\ last.op = "reset"
    /\ Len(last.handlerCalls) = 2
    /\ last.handlerCalls[1].adj = "tempo"
    /\ last.handlerCalls[2].adj = "speed"
    /\ last.handlerCalls[2].wrote

\* C10: while the plugin is inactive the filter handle is empty and the
\* pipeline holds no filter of the plugin.
C10_NoFilterWhileInactive ==
    ~active => pitch_element = None /\ pipeline = {}
====
